---- MODULE Spec2Model ----
(***************************************************************************)
(* Verification model of working_days_scaler: the working-day calendar     *)
(* index (src/working_days.rs) and the gRPC handler (src/handler.rs).      *)
(*                                                                         *)
(* A Date<FixedOffset> is modelled by its num_days_from_ce() (chrono's     *)
(* Date ignores the offset for year/month/day/weekday, cf. the test        *)
(* should_load_holidays_ignoring_offset), a NaiveTime by its second of the *)
(* day, a metadata string by the tuple of its characters.                  *)
(***************************************************************************)
EXTENDS Integers, Sequences, FiniteSets, TLC

VARIABLES
    holidays,       \* the list returned by holidays_loader::load
    working_days,   \* the WorkingDays index held by the GrpcHandler
    lookup,         \* the last direct working_days_mtd query and its result
    clock,          \* Utc::now() in the service's offset: [date, time]
    scaled_object,  \* the scaler_metadata of the caller's ScaledObjectRef, once known
    resp,           \* the last RPC and its response
    subs            \* per ActivationStream subscription: the spawned publisher task,
                    \* its channel and the receiving end

vars == <<holidays, working_days, lookup, clock, scaled_object, resp, subs>>

-----------------------------------------------------------------------------
(* Bounds of the model *)

\* first year of the modelled calendar window (two years are modelled)
BaseYear == 2021
\* longest holiday list handed to WorkingDays::build
MaxHolidays == 3
\* days queried before the first and after the last modelled year
Margin == 3

-----------------------------------------------------------------------------
(* chrono: proleptic Gregorian calendar *)

Years == (BaseYear - 1) .. (BaseYear + 2)

IsLeap(y) == (y % 4 = 0 /\ y % 100 # 0) \/ y % 400 = 0

DaysInMonth(y, m) ==
    IF m = 2 THEN (IF IsLeap(y) THEN 29 ELSE 28)
    ELSE IF m \in {4, 6, 9, 11} THEN 30 ELSE 31

\* days of the year y that precede the first day of month m
RECURSIVE DaysBeforeMonth(_, _)
DaysBeforeMonth(y, m) ==
    IF m = 1 THEN 0 ELSE DaysBeforeMonth(y, m - 1) + DaysInMonth(y, m - 1)

\* days of the common era that precede January 1 of year y
DaysBeforeYear(y) ==
    365 * (y - 1) + ((y - 1) \div 4) - ((y - 1) \div 100) + ((y - 1) \div 400)

\* Datelike::num_days_from_ce of offset.ymd(y, m, d); January 1 of year 1 is day 1
ymd(y, m, d) == DaysBeforeYear(y) + DaysBeforeMonth(y, m) + d

year(date) ==
    CHOOSE y \in Years : DaysBeforeYear(y) < date /\ date <= DaysBeforeYear(y + 1)

month(date) ==
    LET y == year(date)
        o == date - DaysBeforeYear(y)
    IN  CHOOSE m \in 1..12 :
            DaysBeforeMonth(y, m) < o /\ o <= DaysBeforeMonth(y, m) + DaysInMonth(y, m)

day(date) == date - DaysBeforeYear(year(date)) - DaysBeforeMonth(year(date), month(date))

\* Datelike::weekday: 0 = Monday .. 6 = Sunday (0001-01-01 is a Monday)
weekday(date) == (date - 1) % 7

-----------------------------------------------------------------------------
(* src/working_days.rs *)

None == [some |-> FALSE]
Some(v) == [some |-> TRUE, value |-> v]

Ok(v) == [ok |-> TRUE, value |-> v]
Err(e) == [ok |-> FALSE, err |-> e]

EmptyHolidayList == [kind |-> "EmptyHolidayList", bounds |-> <<>>]
DateOutOfRange(s, e) == [kind |-> "DateOutOfRange", bounds |-> <<s, e>>]

\* is_weekend, matching Sunday only
is_weekend_sunday_only(date) == weekday(date) = 6

is_weekend(date) == weekday(date) \in {5, 6}

at_start_of_year(date) == ymd(year(date), 1, 1)

at_end_of_year(date) == ymd(year(date), 12, 31)

\* Vec::sort (stable; equal dates stay, so duplicates are kept)
RECURSIVE Insert(_, _)
Insert(s, x) ==
    IF s = <<>> THEN <<x>>
    ELSE IF x < Head(s) THEN <<x>> \o s
    ELSE <<Head(s)>> \o Insert(Tail(s), x)

RECURSIVE sort(_)
sort(s) == IF s = <<>> THEN <<>> ELSE Insert(sort(SubSeq(s, 1, Len(s) - 1)), s[Len(s)])

\* holidays.into_iter().filter(|date| date >= start_date)
RECURSIVE FilterFrom(_, _)
FilterFrom(s, start_date) ==
    IF s = <<>> THEN <<>>
    ELSE IF Head(s) >= start_date THEN <<Head(s)>> \o FilterFrom(Tail(s), start_date)
    ELSE FilterFrom(Tail(s), start_date)

\* Iterator::next over the filtered holiday list: hs is the filtered list, i the
\* number of items already taken
IterNext(hs, i) == IF i < Len(hs) THEN Some(hs[i + 1]) ELSE None

\* the loop body without the reset of wd_count at a month change
LoopStep_no_reset(last, hlist, st) ==
    IF st.current_date <= last
    THEN LET next_holiday == IterNext(hlist, st.taken - 1)
             wd1 == IF ~is_weekend(st.current_date) /\ Some(st.current_date) # next_holiday
                    THEN st.wd_count + 1 ELSE st.wd_count
             taken1 == IF Some(st.current_date) = next_holiday THEN st.taken + 1 ELSE st.taken
             date1 == st.current_date + 1
             changed == month(date1) # st.current_month
         IN  [current_date |-> date1,
              current_month |-> IF changed THEN month(date1) ELSE st.current_month,
              wd_count |-> wd1,
              taken |-> taken1,
              data |-> Append(st.data, wd1)]
    ELSE st

\* one pass through the body of the while loop of process_working_days; st holds
\* the loop's locals (last = end_date, hlist = the filtered holidays, taken = number of items drawn from holiday_iter so far,
\* next_holiday being the last of them). Past end_date the loop has exited and
\* the locals stay as they are.
LoopStep(last, hlist, st) ==
    IF st.current_date <= last
    THEN LET next_holiday == IterNext(hlist, st.taken - 1)
             wd1 == IF ~is_weekend(st.current_date) /\ Some(st.current_date) # next_holiday
                    THEN st.wd_count + 1 ELSE st.wd_count
             taken1 == IF Some(st.current_date) = next_holiday THEN st.taken + 1 ELSE st.taken
             date1 == st.current_date + 1
             changed == month(date1) # st.current_month
         IN  [current_date |-> date1,
              current_month |-> IF changed THEN month(date1) ELSE st.current_month,
              wd_count |-> IF changed THEN 0 ELSE wd1,
              taken |-> taken1,
              data |-> Append(st.data, wd1)]
    ELSE st

\* the while loop, run for at most n passes (n is halved at each level so that
\* the evaluation stays shallow; called with n = the number of days to process)
RECURSIVE LoopRun(_, _, _, _)
LoopRun(last, hlist, st, n) ==
    IF st.current_date > last \/ n = 0 THEN st
    ELSE IF n = 1 THEN LoopStep(last, hlist, st)
    ELSE LoopRun(last, hlist, LoopRun(last, hlist, st, n \div 2), n - (n \div 2))

\* process_working_days; hols is the sorted list. A negative data_size cast to
\* usize makes Vec::with_capacity panic (capacity overflow). The loop runs until
\* current_date passes end_date, that is end_date - start_date + 1 times.
process_working_days(start_date, end_date, hols) ==
    LET data_size == end_date - start_date
        hs == FilterFrom(hols, start_date)
        st0 == [current_date |-> start_date, current_month |-> month(start_date),
                wd_count |-> 0, taken |-> 1, data |-> <<>>]
    IN  IF data_size < 0 THEN [panic |-> TRUE, data |-> <<>>]
        ELSE [panic |-> FALSE, data |-> LoopRun(end_date, hs, st0, data_size + 1).data]

NoWorkingDays ==
    [status |-> "none", start_date |-> 0, end_date |-> 0, data_offset |-> 0, data |-> <<>>]

build_with_range(start_date, end_date, hols) ==
    LET sorted == sort(hols)
        p == process_working_days(start_date, end_date, sorted)
    IN  IF p.panic THEN [NoWorkingDays EXCEPT !.status = "panic"]
        ELSE [status |-> "ok", start_date |-> start_date, end_date |-> end_date,
              data_offset |-> start_date, data |-> p.data]

build(hols) ==
    IF hols = <<>> THEN [NoWorkingDays EXCEPT !.status = "EmptyHolidayList"]
    ELSE build_with_range(at_start_of_year(hols[1]), at_end_of_year(hols[Len(hols)]), hols)

\* working_days_mtd with the first day of the table left out of the range test
working_days_mtd_after_start(wd, date) ==
    LET date_days == date
    IN  IF date_days > wd.data_offset /\ date_days < wd.data_offset + Len(wd.data)
        THEN Ok(wd.data[date_days - wd.data_offset + 1])
        ELSE Err(DateOutOfRange(wd.start_date, wd.end_date))

working_days_mtd(wd, date) ==
    LET date_days == date
    IN  IF date_days >= wd.data_offset /\ date_days < wd.data_offset + Len(wd.data)
        THEN Ok(wd.data[date_days - wd.data_offset + 1])
        ELSE Err(DateOutOfRange(wd.start_date, wd.end_date))

-----------------------------------------------------------------------------
(* std / chrono parsing. A string is the tuple of its characters. *)

Digit == [c \in {"0", "1", "2", "3", "4", "5", "6", "7", "8", "9"} |->
            CASE c = "0" -> 0 [] c = "1" -> 1 [] c = "2" -> 2 [] c = "3" -> 3 [] c = "4" -> 4
              [] c = "5" -> 5 [] c = "6" -> 6 [] c = "7" -> 7 [] c = "8" -> 8 [] c = "9" -> 9]

IsDigit(c) == c \in DOMAIN Digit

\* u8::MAX
U8Max == 255
\* 2^16: a u32 is two halves of 16 bits
Half == 65536

\* the checked accumulation of u8::from_str: -1 on a non-digit or on overflow
RECURSIVE Accumulate(_, _)
Accumulate(s, acc) ==
    IF s = <<>> THEN acc
    ELSE IF ~IsDigit(Head(s)) THEN -1
    ELSE IF acc * 10 + Digit[Head(s)] > U8Max THEN -1
    ELSE Accumulate(Tail(s), acc * 10 + Digit[Head(s)])

\* the sign and emptiness handling of <unsigned>::from_str: an optional leading
\* '+', then at least one digit
Unsigned(s) == IF s # <<>> /\ Head(s) = "+" THEN Tail(s) ELSE s

\* str::parse::<u8>: None or Some(number)
parse_u8(s) ==
    LET digits == Unsigned(s)
        v == Accumulate(digits, 0)
    IN  IF digits = <<>> \/ v < 0 THEN None ELSE Some(v)

\* the checked accumulation of u32::from_str. A u32 is kept as its two 16-bit
\* halves <<high, low>>; <<>> on a non-digit or on overflow
RECURSIVE Accumulate32(_, _)
Accumulate32(s, acc) ==
    IF s = <<>> THEN acc
    ELSE IF ~IsDigit(Head(s)) THEN <<>>
    ELSE LET low == acc[2] * 10 + Digit[Head(s)]
             high == acc[1] * 10 + (low \div Half)
         IN  IF high >= Half THEN <<>>
             ELSE Accumulate32(Tail(s), <<high, low % Half>>)

\* str::parse::<u32>: None or Some(<<high, low>>)
parse_u32(s) ==
    LET digits == Unsigned(s)
        v == Accumulate32(digits, <<0, 0>>)
    IN  IF digits = <<>> \/ v = <<>> THEN None ELSE Some(v)

\* chrono scan::number(s, 1, 2): one or two leading digits; <<value, rest>> or <<>>
ScanNumber(s) ==
    IF s = <<>> \/ ~IsDigit(Head(s)) THEN <<>>
    ELSE IF Len(s) >= 2 /\ IsDigit(s[2]) THEN <<Digit[s[1]] * 10 + Digit[s[2]], SubSeq(s, 3, Len(s))>>
    ELSE <<Digit[s[1]], Tail(s)>>

ScanColon(s) == IF s # <<>> /\ Head(s) = ":" THEN <<Tail(s)>> ELSE <<>>

\* NaiveTime::parse_from_str(value, "%H:%M:%S"); a NaiveTime is its second of the
\* day (a parsed second of 60, the leap second, is the last instant of its minute)
parse_time(s) ==
    LET h == ScanNumber(s)
        c1 == IF h = <<>> THEN <<>> ELSE ScanColon(h[2])
        m == IF c1 = <<>> THEN <<>> ELSE ScanNumber(c1[1])
        c2 == IF m = <<>> THEN <<>> ELSE ScanColon(m[2])
        sec == IF c2 = <<>> THEN <<>> ELSE ScanNumber(c2[1])
    IN  IF sec = <<>> \/ sec[2] # <<>> THEN None
        ELSE IF h[1] > 23 \/ m[1] > 59 \/ sec[1] > 60 THEN None
        ELSE Some(h[1] * 3600 + m[1] * 60 + sec[1])

-----------------------------------------------------------------------------
(* src/handler.rs *)

\* a message: its text in parts (the source's backquote is written as an
\* apostrophe), with a {n} part for each displayed value, and those values
Message(text, args) == [text |-> text, args |-> args]

\* Status::invalid_argument(message)
invalid_argument(message) == [code |-> "InvalidArgument", message |-> message]

\* the Display of WorkingDaysError with the two dates in the other order
to_string_end_first(err) ==
    IF err.kind = "EmptyHolidayList"
    THEN Message(<<"The holiday list is empty. Its also used to infer witch years to process.">>, <<>>)
    ELSE Message(<<"The requested date was not calculated. Table processed for dates between ",
                   "{0}", " and ", "{1}", ".">>, <<err.bounds[2], err.bounds[1]>>)

\* thiserror's Display of WorkingDaysError
to_string(err) ==
    IF err.kind = "EmptyHolidayList"
    THEN Message(<<"The holiday list is empty. Its also used to infer witch years to process.">>, <<>>)
    ELSE Message(<<"The requested date was not calculated. Table processed for dates between ",
                   "{0}", " and ", "{1}", ".">>, err.bounds)

MissingMetadata(parameter) == Message(<<"Missing required metadata '", parameter, "'.">>, <<>>)

\* read_nth_working_day_arg with an error of its own for a number above 31
read_nth_working_day_arg_range_error(message) ==
    LET value == message["nthWorkingDay"]
    IN  IF ~value.some THEN Err(invalid_argument(MissingMetadata("nthWorkingDay")))
        ELSE LET parsed == parse_u8(value.value)
             IN  IF parsed.some
                 THEN IF parsed.value <= 31 THEN Ok(parsed.value)
                      ELSE Err(invalid_argument(Message(
                               <<"Metadata '", "nthWorkingDay", "' is out of range.">>, <<>>)))
                 ELSE Err(invalid_argument(Message(
                               <<"Metadata '", "nthWorkingDay", "' should be a value between 1 and 31.">>, <<>>)))

read_nth_working_day_arg(message) ==
    LET value == message["nthWorkingDay"]
    IN  IF ~value.some THEN Err(invalid_argument(MissingMetadata("nthWorkingDay")))
        ELSE LET parsed == parse_u8(value.value)
             IN  IF parsed.some
                 THEN IF parsed.value <= 31 THEN Ok(parsed.value)
                      ELSE Err(invalid_argument(Message(
                               <<"Metadata '", "nthWorkingDay", "' should be a value between 1 and 31.">>, <<>>)))
                 ELSE Err(invalid_argument(Message(
                               <<"Metadata '", "nthWorkingDay", "' should be a value between 1 and 31.">>, <<>>)))

\* read_time taking a missing parameter for midnight
read_time_optional(message, parameter) ==
    LET value == message[parameter]
    IN  IF ~value.some THEN Ok(0)
        ELSE LET parsed == parse_time(value.value)
             IN  IF parsed.some THEN Ok(parsed.value)
                 ELSE Err(invalid_argument(Message(
                          <<"Metadata '", parameter, "' should be an time formatted as '%H:%M:%S'.">>, <<>>)))

read_time(message, parameter) ==
    LET value == message[parameter]
    IN  IF ~value.some THEN Err(invalid_argument(MissingMetadata(parameter)))
        ELSE LET parsed == parse_time(value.value)
             IN  IF parsed.some THEN Ok(parsed.value)
                 ELSE Err(invalid_argument(Message(
                          <<"Metadata '", parameter, "' should be an time formatted as '%H:%M:%S'.">>, <<>>)))

read_target_size(message) ==
    LET value == message["targetSize"]
    IN  IF ~value.some THEN Err(invalid_argument(MissingMetadata("targetSize")))
        ELSE LET parsed == parse_u32(value.value)
             IN  IF parsed.some THEN Ok(parsed.value)
                 ELSE Err(invalid_argument(Message(
                          <<"Metadata '", "targetSize", "' should be an integer value.">>, <<>>)))

\* now is Utc::now().with_timezone(&working_days.time_offset): [date, time]
current_nth_working_day(wd, now) ==
    LET result == working_days_mtd(wd, now.date)
    IN  IF result.ok THEN result ELSE Err(invalid_argument(to_string(result.err)))

\* current_time_between with the upper bound excluded
current_time_between_before_to(now, from, to) ==
    LET time == now.time
    IN  from <= time /\ time < to

current_time_between(now, from, to) ==
    LET time == now.time
    IN  from <= time /\ time <= to

\* is_active consulting the calendar before it validates the metadata
is_active_calendar_first(wd, message, now1, now2) ==
    LET expected_nth_working_day == read_nth_working_day_arg(message)
        from_time == read_time(message, "fromTime")
        to_time == read_time(message, "toTime")
        target_size == read_target_size(message)
        nth_working_day == current_nth_working_day(wd, now1)
    IN  IF ~nth_working_day.ok THEN [result |-> nth_working_day, reads |-> <<now1>>]
        ELSE IF ~expected_nth_working_day.ok THEN [result |-> expected_nth_working_day, reads |-> <<now1>>]
        ELSE IF ~from_time.ok THEN [result |-> from_time, reads |-> <<now1>>]
        ELSE IF ~to_time.ok THEN [result |-> to_time, reads |-> <<now1>>]
        ELSE IF ~target_size.ok THEN [result |-> target_size, reads |-> <<now1>>]
        ELSE IF expected_nth_working_day.value = nth_working_day.value
             THEN [result |-> Ok(current_time_between(now2, from_time.value, to_time.value)),
                   reads |-> <<now1, now2>>]
             ELSE [result |-> Ok(FALSE), reads |-> <<now1>>]

\* is_active reads the wall clock twice: now1 in current_nth_working_day, now2 in
\* current_time_between (reached only when the ordinal matches, && being lazy).
\* reads lists the clock readings made.
is_active(wd, message, now1, now2) ==
    LET expected_nth_working_day == read_nth_working_day_arg(message)
        from_time == read_time(message, "fromTime")
        to_time == read_time(message, "toTime")
        target_size == read_target_size(message)
        nth_working_day == current_nth_working_day(wd, now1)
    IN  IF ~expected_nth_working_day.ok THEN [result |-> expected_nth_working_day, reads |-> <<>>]
        ELSE IF ~from_time.ok THEN [result |-> from_time, reads |-> <<>>]
        ELSE IF ~to_time.ok THEN [result |-> to_time, reads |-> <<>>]
        ELSE IF ~target_size.ok THEN [result |-> target_size, reads |-> <<>>]
        ELSE IF ~nth_working_day.ok THEN [result |-> nth_working_day, reads |-> <<now1>>]
        ELSE IF expected_nth_working_day.value = nth_working_day.value
             THEN [result |-> Ok(current_time_between(now2, from_time.value, to_time.value)),
                   reads |-> <<now1, now2>>]
             ELSE [result |-> Ok(FALSE), reads |-> <<now1>>]

\* get_metric_spec: the single MetricSpec
get_metric_spec(message) ==
    LET target_size == read_target_size(message)
    IN  IF ~target_size.ok THEN target_size
        ELSE Ok([metric_name |-> "nthWorkingDay", target_size |-> target_size.value])

\* get_metrics: the single MetricValue
get_metrics(wd, metric_name, now) ==
    LET nth_working_day == current_nth_working_day(wd, now)
    IN  IF ~nth_working_day.ok THEN nth_working_day
        ELSE Ok([metric_name |-> metric_name, metric_value |-> nth_working_day.value])

-----------------------------------------------------------------------------
(* Inputs *)

\* dates a holiday file may list: a Friday that opens the window, a Thursday,
\* a Friday of the second year and a Sunday that opens a month
HolidayPool ==
    {ymd(BaseYear, 1, 1), ymd(BaseYear, 6, 3), ymd(BaseYear + 1, 4, 15), ymd(BaseYear + 1, 5, 1)}

\* what holidays_loader::load returns: the file's dates in file order, neither
\* sorted nor de-duplicated
HolidayLists == UNION {[1..n -> HolidayPool] : n \in 0..MaxHolidays}

LookupDates == (ymd(BaseYear, 1, 1) - Margin) .. (ymd(BaseYear + 1, 12, 31) + Margin)

\* the holiday lists of the handler's test fixtures (simple_working_days,
\* out_of_range_working_days), placed in the modelled years
HandlerHolidayLists ==
    { <<ymd(BaseYear, 6, 5)>>,
      <<ymd(BaseYear, 6, 5), ymd(BaseYear + 1, 6, 5)>>,
      <<ymd(BaseYear + 1, 6, 5)>> }

hms(h, m, sec) == h * 3600 + m * 60 + sec

\* wall-clock readings: the last day of the first year, the first Saturday and
\* the first Monday of the second; around the 06:00:00-18:00:00 window
ClockDates == {ymd(BaseYear, 12, 31), ymd(BaseYear + 1, 1, 1), ymd(BaseYear + 1, 1, 3)}
ClockTimes == {hms(5, 59, 59), hms(6, 0, 0), hms(18, 0, 0), hms(18, 0, 1)}
Instants == [date : ClockDates, time : ClockTimes]

Before(a, b) == a.date < b.date \/ (a.date = b.date /\ a.time < b.time)

\* metadata values, as sent by the caller
NthValues ==
    { None, Some(<<"j", "o", "s", "e">>), Some(<<"3", "2">>), Some(<<"2", "5", "6">>),
      Some(<<"0">>), Some(<<"1">>), Some(<<"2", "3">>) }
TimeValues ==
    { None, Some(<<"0", "6", ":", "0", "0", ":", "0", "0">>),
      Some(<<"1", "8", ":", "0", "0", ":", "0", "0">>), Some(<<"0", "0", ":", "0", "0">>) }
TargetValues == { None, Some(<<"1", "0">>), Some(<<"j", "o", "s", "e">>) }

\* ScaledObjectRef.scaler_metadata
Messages ==
    [nthWorkingDay : NthValues, fromTime : TimeValues, toTime : TimeValues, targetSize : TargetValues]

NoLookup == [date |-> 0, result |-> Err(EmptyHolidayList)]
NoResp == [op |-> "none", request |-> <<>>, result |-> Ok(FALSE), reads |-> <<>>]
NoClock == [date |-> 0, time |-> 0]

\* the subscriptions followed: stream_is_active makes one channel and one task
\* for each call
Subscribers == {"a", "b"}

\* main: push_interval, in seconds of the runtime's monotonic timer
PushInterval == 2

\* the evaluations followed for one subscription
MaxItems == 3

\* a channel with room for two items
ChannelCapacity_two == 1 + 1

\* stream_is_active: mpsc::channel(1)
ChannelCapacity == 1

NoItem == [seq |-> 0, waited |-> 0, result |-> Ok(FALSE)]

\* a subscription that has not been opened
NoSub ==
    [pc |-> "none", pending |-> NoItem, chan |-> <<>>, alive |-> FALSE,
     slept |-> 0, evaluated |-> 0, received |-> <<>>]

NoSubs == [s \in Subscribers |-> NoSub]

\* the index of a service whose holidays end in BaseYear
StreamHolidayLists == {<<ymd(BaseYear, 6, 5)>>}

\* the metadata of the scaled objects that subscribe
StreamMessages ==
    {m \in Messages :
        /\ m.nthWorkingDay \in {Some(<<"2", "3">>), Some(<<"j", "o", "s", "e">>)}
        /\ m.fromTime = Some(<<"0", "6", ":", "0", "0", ":", "0", "0">>)
        /\ m.toTime = Some(<<"1", "8", ":", "0", "0", ":", "0", "0">>)
        /\ m.targetSize \in {Some(<<"1", "0">>), None}}

-----------------------------------------------------------------------------
(* The calendar index: construction at startup and direct queries *)

Init ==
    /\ holidays \in HolidayLists
    /\ working_days = NoWorkingDays
    /\ lookup = NoLookup
    /\ clock = NoClock
    /\ scaled_object = None
    /\ resp = NoResp
    /\ subs = NoSubs

\* main: WorkingDays::build(time_offset, holidays)
Build ==
    /\ working_days.status = "none"
    /\ working_days' = build(holidays)
    /\ UNCHANGED <<holidays, lookup, clock, scaled_object, resp, subs>>

\* WorkingDays::working_days_mtd(date) on the built index; the caller starts at
\* any date and then walks the following days, as the tests do
WorkingDaysMtd ==
    /\ working_days.status = "ok"
    /\ \E date \in LookupDates :
          /\ lookup = NoLookup \/ date = lookup.date + 1
          /\ lookup' = [date |-> date, result |-> working_days_mtd(working_days, date)]
    /\ UNCHANGED <<holidays, working_days, clock, scaled_object, resp, subs>>

Next == Build \/ WorkingDaysMtd

Spec == Init /\ [][Next]_vars

-----------------------------------------------------------------------------
(* The calendar index over a window given by the caller *)

\* the windows asked for: the year of the first holidays, the year after it,
\* and a window from the middle of the one to the spring of the other
Ranges ==
    {<<ymd(BaseYear, 1, 1), ymd(BaseYear, 12, 31)>>,
     <<ymd(BaseYear, 6, 1), ymd(BaseYear + 1, 4, 30)>>,
     <<ymd(BaseYear + 1, 1, 1), ymd(BaseYear + 1, 12, 31)>>}

\* WorkingDays::build_with_range(time_offset, start_date, end_date, holidays)
BuildWithRange ==
    /\ working_days.status = "none"
    /\ \E range \in Ranges :
          working_days' = build_with_range(range[1], range[2], holidays)
    /\ UNCHANGED <<holidays, lookup, clock, scaled_object, resp, subs>>

RangeNext == BuildWithRange

RangeSpec == Init /\ [][RangeNext]_vars

-----------------------------------------------------------------------------
(* The gRPC handler over the index built at startup. The handlers keep no state
   between requests, so one behaviour follows the requests made for one scaled
   object, whose metadata is the same in each of them. *)

HandlerInit ==
    /\ holidays \in HandlerHolidayLists
    /\ working_days = NoWorkingDays
    /\ lookup = NoLookup
    /\ clock \in Instants
    /\ scaled_object = None
    /\ resp = NoResp
    /\ subs = NoSubs

\* the caller's scaled object and its metadata come into being
NewScaledObject ==
    /\ working_days.status = "ok"
    /\ scaled_object = None
    /\ \E message \in Messages : scaled_object' = Some(message)
    /\ UNCHANGED <<holidays, working_days, lookup, clock, resp, subs>>

\* the wall clock advances
Tick ==
    /\ \E now \in Instants : Before(clock, now) /\ clock' = now
    /\ UNCHANGED <<holidays, working_days, lookup, scaled_object, resp, subs>>

\* ExternalScaler::is_active; the clock may advance between the two readings
IsActive ==
    /\ working_days.status = "ok"
    /\ scaled_object.some
    /\ \E now2 \in Instants :
          LET message == scaled_object.value
              r == is_active(working_days, message, clock, now2)
          IN  /\ ~Before(now2, clock)
              /\ Len(r.reads) = 2 \/ now2 = clock
              /\ resp' = [op |-> "is_active", request |-> message,
                          result |-> r.result, reads |-> r.reads]
              /\ clock' = now2
    /\ UNCHANGED <<holidays, working_days, lookup, scaled_object, subs>>

\* ExternalScaler::get_metric_spec
GetMetricSpec ==
    /\ working_days.status = "ok"
    /\ scaled_object.some
    /\ resp' = [op |-> "get_metric_spec", request |-> scaled_object.value,
                result |-> get_metric_spec(scaled_object.value), reads |-> <<>>]
    /\ UNCHANGED <<holidays, working_days, lookup, clock, scaled_object, subs>>

\* ExternalScaler::get_metrics
GetMetrics ==
    /\ working_days.status = "ok"
    /\ \E metric_name \in {"metric_name"} :
          resp' = [op |-> "get_metrics", request |-> [metric_name |-> metric_name],
                   result |-> get_metrics(working_days, metric_name, clock),
                   reads |-> <<clock>>]
    /\ UNCHANGED <<holidays, working_days, lookup, clock, scaled_object, subs>>

HandlerNext == Build \/ NewScaledObject \/ Tick \/ IsActive \/ GetMetricSpec \/ GetMetrics

HandlerSpec == HandlerInit /\ [][HandlerNext]_vars

-----------------------------------------------------------------------------
(* ExternalScaler::stream_is_active. Each call makes a channel of capacity 1,
   spawns a publisher task that owns the sending end, and returns the receiving
   end to the subscriber. The publisher's places are the points where the task
   can be overtaken by the subscriber: the loop condition, the evaluation, the
   send and the sleep. The sleep runs on the runtime's monotonic timer, the
   evaluation reads the wall clock. *)

StreamInit ==
    /\ holidays \in StreamHolidayLists
    /\ working_days = NoWorkingDays
    /\ lookup = NoLookup
    /\ clock \in Instants
    /\ scaled_object = None
    /\ resp = NoResp
    /\ subs = NoSubs

\* the subscribing scaled object and its metadata come into being
StreamScaledObject ==
    /\ working_days.status = "ok"
    /\ scaled_object = None
    /\ \E message \in StreamMessages : scaled_object' = Some(message)
    /\ UNCHANGED <<holidays, working_days, lookup, clock, resp, subs>>

\* stream_is_active: the channel is made, the task spawned and the receiving
\* end returned, whatever the metadata is
StreamIsActive(s) ==
    /\ working_days.status = "ok"
    /\ scaled_object.some
    /\ subs[s].pc = "none"
    /\ subs' = [subs EXCEPT ![s] = [NoSub EXCEPT !.pc = "check", !.alive = TRUE]]
    /\ resp' = [op |-> "stream_is_active", request |-> scaled_object.value,
                result |-> Ok(TRUE), reads |-> <<>>]
    /\ UNCHANGED <<holidays, working_days, lookup, clock, scaled_object>>

\* a loop that does not look at the channel
PublisherCheck_while_true(s) ==
    /\ subs[s].pc = "check"
    /\ subs[s].evaluated < MaxItems
    /\ subs' = [subs EXCEPT ![s].pc = "eval"]
    /\ UNCHANGED <<holidays, working_days, lookup, clock, scaled_object, resp>>

\* while !tx.is_closed(); the evaluations followed end at MaxItems
PublisherCheck(s) ==
    /\ subs[s].pc = "check"
    /\ IF ~subs[s].alive
       THEN subs' = [subs EXCEPT ![s].pc = "done"]
       ELSE /\ subs[s].evaluated < MaxItems
            /\ subs' = [subs EXCEPT ![s].pc = "eval"]
    /\ UNCHANGED <<holidays, working_days, lookup, clock, scaled_object, resp>>

\* a task that ends at an evaluation that fails
PublisherEval_fail_closes(s) ==
    /\ subs[s].pc = "eval"
    /\ \E now2 \in Instants :
          /\ ~Before(now2, clock)
          /\ \E r \in {is_active(working_days, scaled_object.value, clock, now2)} :
                /\ now2 = clock \/ Len(r.reads) = 2
                /\ subs' = [subs EXCEPT
                               ![s].pc = IF r.result.ok THEN "send" ELSE "done",
                               ![s].pending = [seq |-> subs[s].evaluated + 1,
                                               waited |-> subs[s].slept,
                                               result |-> r.result],
                               ![s].evaluated = @ + 1]
                /\ clock' = now2
    /\ UNCHANGED <<holidays, working_days, lookup, scaled_object, resp>>

\* let result = is_active(&working_days, message.clone()).await
PublisherEval(s) ==
    /\ subs[s].pc = "eval"
    /\ \E now2 \in Instants :
          /\ ~Before(now2, clock)
          /\ \E r \in {is_active(working_days, scaled_object.value, clock, now2)} :
                /\ now2 = clock \/ Len(r.reads) = 2
                /\ subs' = [subs EXCEPT
                               ![s].pc = "send",
                               ![s].pending = [seq |-> subs[s].evaluated + 1,
                                               waited |-> subs[s].slept,
                                               result |-> r.result],
                               ![s].evaluated = @ + 1]
                /\ clock' = now2
    /\ UNCHANGED <<holidays, working_days, lookup, scaled_object, resp>>

\* tx.send(result).await: an error once the receiving end is gone, else the item
\* enters the channel as soon as there is room, and the sleep starts
PublisherSend_no_sleep(s) ==
    /\ subs[s].pc = "send"
    /\ IF ~subs[s].alive
       THEN subs' = [subs EXCEPT ![s].pc = "check", ![s].pending = NoItem]
       ELSE /\ Len(subs[s].chan) < ChannelCapacity
            /\ subs' = [subs EXCEPT ![s].pc = "check", ![s].pending = NoItem,
                                    ![s].chan = Append(@, subs[s].pending)]
    /\ UNCHANGED <<holidays, working_days, lookup, clock, scaled_object, resp>>

PublisherSend(s) ==
    /\ subs[s].pc = "send"
    /\ IF ~subs[s].alive
       THEN subs' = [subs EXCEPT ![s].pc = "check", ![s].pending = NoItem]
       ELSE /\ Len(subs[s].chan) < ChannelCapacity
            /\ subs' = [subs EXCEPT ![s].pc = "sleep", ![s].pending = NoItem,
                                    ![s].chan = Append(@, subs[s].pending),
                                    ![s].slept = 0]
    /\ UNCHANGED <<holidays, working_days, lookup, clock, scaled_object, resp>>

\* tokio::time::sleep(push_interval).await completes at its deadline
PublisherWake(s) ==
    /\ subs[s].pc = "sleep"
    /\ subs[s].slept >= PushInterval
    /\ subs' = [subs EXCEPT ![s].pc = "check"]
    /\ UNCHANGED <<holidays, working_days, lookup, clock, scaled_object, resp>>

Publisher(s) ==
    PublisherCheck(s) \/ PublisherEval(s) \/ PublisherSend(s) \/ PublisherWake(s)

\* a second of the monotonic timer passes for every sleeping task
TimePasses ==
    /\ \E s \in Subscribers : subs[s].pc = "sleep" /\ subs[s].slept < PushInterval
    /\ subs' = [s \in Subscribers |->
                  IF subs[s].pc = "sleep" /\ subs[s].slept < PushInterval
                  THEN [subs[s] EXCEPT !.slept = @ + 1]
                  ELSE subs[s]]
    /\ UNCHANGED <<holidays, working_days, lookup, clock, scaled_object, resp>>

\* the subscriber takes the item at the head of the channel
Recv(s) ==
    /\ subs[s].alive
    /\ subs[s].chan # <<>>
    /\ subs' = [subs EXCEPT ![s].received = Append(@, Head(subs[s].chan)),
                            ![s].chan = Tail(@)]
    /\ UNCHANGED <<holidays, working_days, lookup, clock, scaled_object, resp>>

\* the subscriber drops the receiving end; what the channel holds is discarded
Drop(s) ==
    /\ subs[s].alive
    /\ subs' = [subs EXCEPT ![s].alive = FALSE, ![s].chan = <<>>]
    /\ UNCHANGED <<holidays, working_days, lookup, clock, scaled_object, resp>>

Subscription(s) == StreamIsActive(s) \/ Publisher(s) \/ Recv(s) \/ Drop(s)

\* one subscription
StreamNext ==
    Build \/ StreamScaledObject \/ Tick \/ TimePasses \/ Subscription("a")

StreamSpec == StreamInit /\ [][StreamNext]_vars

\* the runtime runs a task that can run: weak fairness of each of the task's
\* steps. The evaluation is enabled exactly where the task is at it (the clock
\* reading now2 = clock is always possible), and its fairness is written with
\* that condition
PublisherFair(s) ==
    /\ WF_vars(PublisherCheck(s))
    /\ WF_vars(PublisherSend(s))
    /\ WF_vars(PublisherWake(s))
    /\ []<>(subs[s].pc # "eval") \/ []<><<PublisherEval(s)>>_vars

\* the runtime's task scheduling and its timer
StreamFairSpec ==
    StreamSpec /\ PublisherFair("a") /\ WF_vars(TimePasses)

\* a subscriber that takes every item offered to it
ReceivingSpec == StreamFairSpec /\ WF_vars(Recv("a"))

\* two subscriptions beside the unary ActivationCheck and Metrics
PairNext ==
    \/ Build \/ StreamScaledObject \/ Tick \/ TimePasses \/ IsActive \/ GetMetrics
    \/ \E s \in Subscribers : Subscription(s)

\* a service whose index covers both years, late on the last day followed
PairInit ==
    /\ holidays \in {<<ymd(BaseYear, 6, 5), ymd(BaseYear + 1, 6, 5)>>}
    /\ working_days = NoWorkingDays
    /\ lookup = NoLookup
    /\ clock \in {i \in Instants : i.date = ymd(BaseYear + 1, 1, 3) /\ i.time >= hms(18, 0, 0)}
    /\ scaled_object = None
    /\ resp = NoResp
    /\ subs = NoSubs

PairSpec == PairInit /\ [][PairNext]_vars

-----------------------------------------------------------------------------
(* Properties of the calendar index (checked under Spec) *)

Range(l) == {l[i] : i \in DOMAIN l}

Min(S) == CHOOSE x \in S : \A z \in S : x <= z
Max(S) == CHOOSE x \in S : \A z \in S : z <= x

SortedNoDup(l) == \A i, j \in DOMAIN l : i < j => l[i] < l[j]
NoDup(l) == \A i, j \in DOMAIN l : i # j => l[i] # l[j]

\* a working day: neither a Saturday or Sunday nor a listed holiday
WorkingDay(d) == weekday(d) < 5 /\ d \notin Range(holidays)

FirstOfMonth(d) == d - day(d) + 1

\* the working days of d's month up to d, d included
WorkingDaysTo(d) == {x \in FirstOfMonth(d)..d : WorkingDay(x)}

Built == working_days.status = "ok"
InRange(d) == working_days.start_date <= d /\ d <= working_days.end_date
Queried == lookup # NoLookup

\* C1: for an index built from a sorted, duplicate-free, non-empty holiday list,
\* working_days_mtd(d) of a date d in [start_date, end_date] is the number of
\* working days from the first day of d's month to d.
C1_MtdCountsWorkingDays ==
    (Built /\ SortedNoDup(holidays) /\ Queried /\ InRange(lookup.date))
        => lookup.result = Ok(Cardinality(WorkingDaysTo(lookup.date)))

\* a listed weekday holiday past the first month is queried and returns the
\* count reached before it
C1_Witness ==
    /\ Built /\ SortedNoDup(holidays) /\ Len(holidays) >= 2 /\ Queried
    /\ lookup.date \in Range(holidays) /\ weekday(lookup.date) < 5
    /\ month(lookup.date) > 1
    /\ lookup.result.ok /\ lookup.result.value > 0
    /\ lookup.result = working_days_mtd(working_days, lookup.date - 1)

\* C2: working_days_mtd(d) fails exactly when d is before start_date or after
\* end_date, and the error carries the index's start_date and end_date.
C2_OutOfRangeExactly ==
    (Built /\ Queried) =>
        /\ lookup.result.ok <=> InRange(lookup.date)
        /\ ~lookup.result.ok =>
              lookup.result.err = DateOutOfRange(working_days.start_date, working_days.end_date)

\* both endpoints answer, the days next to them do not
C2_Witness ==
    /\ Built /\ Queried /\ lookup.date = working_days.end_date + 1
    /\ ~lookup.result.ok
    /\ working_days_mtd(working_days, working_days.end_date).ok
    /\ working_days_mtd(working_days, working_days.start_date).ok
    /\ ~working_days_mtd(working_days, working_days.start_date - 1).ok

\* C3: for every non-empty holiday list, build yields start_date = January 1 of
\* the year of the earliest holiday and end_date = December 31 of the year of
\* the latest holiday.
C3_BoundsFromMinMax ==
    (holidays # <<>> /\ Built) =>
        /\ working_days.start_date = ymd(year(Min(Range(holidays))), 1, 1)
        /\ working_days.end_date = ymd(year(Max(Range(holidays))), 12, 31)

\* the working days before d that the index covers
EarlierWorkingDays(d) == {x \in working_days.start_date..(d - 1) : WorkingDay(x)}

\* C4 as stated: a holiday or weekend date in range has the value of the previous
\* working day, whenever that day is in range.
C4_Original ==
    (Built /\ Queried /\ InRange(lookup.date) /\ ~WorkingDay(lookup.date)
        /\ EarlierWorkingDays(lookup.date) # {})
        => lookup.result = working_days_mtd(working_days, Max(EarlierWorkingDays(lookup.date)))

\* C4 amended: for a duplicate-free holiday list, a holiday or weekend date in
\* range has the value of the previous working day when that day is in range and
\* in the same month, and 0 when no working day precedes it in its month.
C4_SameMonthPreviousWorkingDay ==
    (Built /\ NoDup(holidays) /\ Queried /\ InRange(lookup.date) /\ ~WorkingDay(lookup.date)) =>
        LET d == lookup.date
            earlier == EarlierWorkingDays(d)
        IN  /\ (earlier # {} /\ Max(earlier) >= FirstOfMonth(d))
                  => lookup.result = working_days_mtd(working_days, Max(earlier))
            /\ (\A x \in FirstOfMonth(d)..d : ~WorkingDay(x)) => lookup.result = Ok(0)

\* a Sunday holiday opening a month is queried: the previous working day is in
\* range, in the month before, and has another value
C4_Witness ==
    /\ Built /\ NoDup(holidays) /\ Queried /\ InRange(lookup.date)
    /\ lookup.date \in Range(holidays) /\ day(lookup.date) = 1 /\ weekday(lookup.date) = 6
    /\ EarlierWorkingDays(lookup.date) # {}
    /\ lookup.result = Ok(0)
    /\ working_days_mtd(working_days, Max(EarlierWorkingDays(lookup.date))).value > 0

-----------------------------------------------------------------------------
(* Properties of the handler (checked under HandlerSpec) *)

IsActiveResp == resp.op = "is_active"

FieldsValid(message) ==
    /\ read_nth_working_day_arg(message).ok
    /\ read_time(message, "fromTime").ok
    /\ read_time(message, "toTime").ok
    /\ read_target_size(message).ok

\* the message text has the field's name as one of its parts
NamesField(status, field) == \E i \in DOMAIN status.message.text : status.message.text[i] = field

\* C5: is_active validates nthWorkingDay, fromTime, toTime, targetSize in that
\* order and returns the error of the first field that fails, whatever the later
\* fields are; the calendar is consulted (the clock read) only once all four are
\* valid, also when today is out of the calendar's range.
C5_ValidationOrder ==
    IsActiveResp =>
        LET m == resp.request
            nth == read_nth_working_day_arg(m)
            from == read_time(m, "fromTime")
            to == read_time(m, "toTime")
            target == read_target_size(m)
        IN  /\ ~nth.ok => resp.result = nth
            /\ (nth.ok /\ ~from.ok) => resp.result = from
            /\ (nth.ok /\ from.ok /\ ~to.ok) => resp.result = to
            /\ (nth.ok /\ from.ok /\ to.ok /\ ~target.ok) => resp.result = target
            /\ ~FieldsValid(m) => resp.reads = <<>>
            /\ FieldsValid(m) => resp.reads # <<>>

\* fromTime, toTime and targetSize are all invalid and today is out of range:
\* the answer is the error of fromTime
C5_Witness ==
    /\ IsActiveResp /\ ~InRange(clock.date)
    /\ read_nth_working_day_arg(resp.request).ok
    /\ resp.request.fromTime.some /\ ~read_time(resp.request, "fromTime").ok
    /\ ~read_time(resp.request, "toTime").ok
    /\ ~read_target_size(resp.request).ok
    /\ ~resp.result.ok /\ NamesField(resp.result.err, "fromTime")
    /\ resp.reads = <<>>

Jose == <<"j", "o", "s", "e">>
ThirtyTwo == <<"3", "2">>
WithNth(message, value) == [message EXCEPT !.nthWorkingDay = value]

\* C6 as stated: a missing, a malformed ("jose") and an out-of-range ("32")
\* nthWorkingDay give three distinguishable errors, each naming nthWorkingDay.
C6_Original ==
    (IsActiveResp /\ resp.request.nthWorkingDay = Some(ThirtyTwo)) =>
        /\ ~resp.result.ok
        /\ NamesField(resp.result.err, "nthWorkingDay")
        /\ resp.result # read_nth_working_day_arg(WithNth(resp.request, None))
        /\ resp.result # read_nth_working_day_arg(WithNth(resp.request, Some(Jose)))

\* C6 amended: a failed nthWorkingDay validation names nthWorkingDay and tells a
\* missing key from an invalid value, but a malformed value and an out-of-range
\* integer give the same error.
C6_MissingVsInvalid ==
    (IsActiveResp /\ ~read_nth_working_day_arg(resp.request).ok) =>
        /\ ~resp.result.ok
        /\ resp.result.err.code = "InvalidArgument"
        /\ NamesField(resp.result.err, "nthWorkingDay")
        /\ resp.request.nthWorkingDay.some
              <=> resp.result = read_nth_working_day_arg(WithNth(resp.request, Some(Jose)))
        /\ resp.request.nthWorkingDay.some
              <=> resp.result = read_nth_working_day_arg(WithNth(resp.request, Some(ThirtyTwo)))
        /\ ~resp.request.nthWorkingDay.some
              <=> resp.result = read_nth_working_day_arg(WithNth(resp.request, None))

\* "32" is answered with the error that "jose" gets
C6_Witness ==
    /\ IsActiveResp /\ resp.request.nthWorkingDay = Some(ThirtyTwo)
    /\ ~resp.result.ok
    /\ resp.result = read_nth_working_day_arg(WithNth(resp.request, Some(Jose)))
    /\ resp.result # read_nth_working_day_arg(WithNth(resp.request, None))

\* the number a decimal numeral denotes
RECURSIVE DecimalValue(_)
DecimalValue(s) == IF s = <<>> THEN 0 ELSE DecimalValue(SubSeq(s, 1, Len(s) - 1)) * 10 + Digit[s[Len(s)]]

IsDecimal(s) == s # <<>> /\ \A i \in DOMAIN s : IsDigit(s[i])

\* the nthWorkingDay of the request passed its validation
NthAccepted == resp.result.ok \/ ~NamesField(resp.result.err, "nthWorkingDay")

\* C7: is_active accepts the nthWorkingDay value exactly when it is an integer
\* from 1 to 31; any other value is rejected with the invalid-argument error
\* saying that nthWorkingDay should be a value between 1 and 31.
C7_AcceptsExactly1To31 ==
    (IsActiveResp /\ resp.request.nthWorkingDay.some) =>
        LET v == resp.request.nthWorkingDay.value
        IN  /\ NthAccepted <=> (IsDecimal(v) /\ DecimalValue(v) \in 1..31)
            /\ ~NthAccepted =>
                  resp.result = Err(invalid_argument(Message(
                      <<"Metadata '", "nthWorkingDay", "' should be a value between 1 and 31.">>, <<>>)))

\* C8 as stated: with neither fromTime nor toTime (nthWorkingDay and targetSize
\* valid, today in range) is_active succeeds with ordinal = nthWorkingDay.
C8_Original ==
    (IsActiveResp /\ ~resp.request.fromTime.some /\ ~resp.request.toTime.some
        /\ read_nth_working_day_arg(resp.request).ok /\ read_target_size(resp.request).ok
        /\ InRange(clock.date))
        => /\ resp.result.ok
           /\ resp.result.value = (working_days_mtd(working_days, clock.date).value
                                      = read_nth_working_day_arg(resp.request).value)

\* C8 amended: the time window is required; with neither fromTime nor toTime
\* (nthWorkingDay valid) is_active fails with the invalid-argument error
\* "Missing required metadata `fromTime`." and reads no clock.
C8_WindowRequired ==
    (IsActiveResp /\ ~resp.request.fromTime.some /\ ~resp.request.toTime.some
        /\ read_nth_working_day_arg(resp.request).ok)
        => /\ resp.result = Err([code |-> "InvalidArgument",
                                 message |-> Message(<<"Missing required metadata '", "fromTime", "'.">>, <<>>)])
           /\ resp.reads = <<>>

\* no window, the other fields valid, today in range: the request is refused
C8_Witness ==
    /\ IsActiveResp /\ ~resp.request.fromTime.some /\ ~resp.request.toTime.some
    /\ read_nth_working_day_arg(resp.request).ok /\ read_target_size(resp.request).ok
    /\ InRange(clock.date)
    /\ ~resp.result.ok /\ NamesField(resp.result.err, "fromTime")

\* the response answers a request whose four fields are valid, on a day the
\* calendar covers
Evaluated ==
    /\ IsActiveResp /\ FieldsValid(resp.request)
    /\ resp.reads # <<>> /\ InRange(resp.reads[1].date)

\* C9: with valid metadata and today in range, is_active returns true exactly
\* when the working-day ordinal of today equals nthWorkingDay and fromTime <=
\* time of day <= toTime, both bounds included; with fromTime > toTime it returns
\* false at every time and no error.
C9_OrdinalAndWindow ==
    Evaluated =>
        LET nth == read_nth_working_day_arg(resp.request).value
            from == read_time(resp.request, "fromTime").value
            to == read_time(resp.request, "toTime").value
            ordinal == working_days_mtd(working_days, resp.reads[1].date).value
            time == resp.reads[Len(resp.reads)].time
        IN  /\ resp.result.ok
            /\ resp.result.value <=> (ordinal = nth /\ from <= time /\ time <= to)
            /\ from > to => resp.result.value = FALSE

\* the ordinal matches and the time of day is toTime itself: true
C9_Witness ==
    /\ Evaluated /\ Len(resp.reads) = 2
    /\ resp.reads[2].time = read_time(resp.request, "toTime").value
    /\ read_time(resp.request, "fromTime").value < read_time(resp.request, "toTime").value
    /\ resp.result = Ok(TRUE)

\* C10: when today is outside [start_date, end_date], is_active (with valid
\* metadata) and get_metrics both fail with the invalid-argument error whose
\* message is that of DateOutOfRange with the index's start_date and end_date.
C10_OutOfRangeBothFail ==
    (/\ (IsActiveResp /\ FieldsValid(resp.request)) \/ resp.op = "get_metrics"
     /\ resp.reads # <<>> /\ ~InRange(resp.reads[1].date))
        => resp.result =
              Err([code |-> "InvalidArgument",
                   message |-> Message(
                       <<"The requested date was not calculated. Table processed for dates between ",
                         "{0}", " and ", "{1}", ".">>,
                       <<working_days.start_date, working_days.end_date>>)])

\* is_active is refused on a day after end_date, as get_metrics is that day
C10_Witness ==
    /\ IsActiveResp /\ FieldsValid(resp.request)
    /\ resp.reads # <<>> /\ resp.reads[1].date > working_days.end_date
    /\ ~resp.result.ok
    /\ resp.result = get_metrics(working_days, "metric_name", resp.reads[1])

-----------------------------------------------------------------------------
(* The streaming subscription *)

Opened(s) == subs[s].pc # "none"
Dropped(s) == Opened(s) /\ ~subs[s].alive
Received(s) == subs[s].received

\* the evaluated items of a subscription that are still somewhere: taken by the
\* subscriber, held by the channel, or held by the publisher's send
Held(s) == IF subs[s].pc = "send" THEN <<subs[s].pending>> ELSE <<>>
Evaluations(s) == Received(s) \o subs[s].chan \o Held(s)

\* the first evaluation follows no sleep, every later one a whole interval
TimedAtInterval(s) ==
    \A k \in 1..Len(Evaluations(s)) :
        Evaluations(s)[k].waited = IF Evaluations(s)[k].seq = 1 THEN 0 ELSE PushInterval

\* the subscriber has taken the first evaluations, in their order, and what is
\* on its way follows them
InEvaluationOrder(s) ==
    /\ \A k \in 1..Len(Received(s)) : Received(s)[k].seq = k
    /\ \A k \in 1..Len(subs[s].chan) : subs[s].chan[k].seq = Len(Received(s)) + k

\* C11: the publisher evaluates and pushes its first item without sleeping and
\* every later item after one whole push interval since the push before it was
\* accepted; the subscriber takes the items one at a time in the order of their
\* evaluation; and a subscriber that never drops the receiving end and takes
\* what is offered receives a next item after every item, so a third one too.
C11_PushesAtInterval ==
    /\ [](TimedAtInterval("a") /\ InEvaluationOrder("a"))
    /\ ([]~Dropped("a")) =>
          \A n \in 0..(MaxItems - 1) :
              (Opened("a") /\ Len(Received("a")) = n) ~> (Len(Received("a")) = n + 1)

C11_Witness ==
    /\ subs["a"].alive
    /\ Len(Received("a")) >= 3
    /\ Received("a")[1].waited = 0
    /\ Received("a")[3].seq = 3
    /\ Received("a")[3].waited = PushInterval
    /\ PushInterval > 0

\* the places of the publisher's loop
LoopPlaces == {"check", "eval", "send", "sleep"}

\* C12: once the subscriber has dropped the receiving end, the channel takes no
\* item any more and the receiving end stays dropped, so no push succeeds after
\* a rejected one; and wherever in its loop the publisher then is (the closed
\* check, the evaluation, the send, the sleep), the task eventually leaves the
\* loop and stays terminated.
C12_DisconnectEndsPublisher ==
    /\ [](Dropped("a") => subs["a"].chan = <<>>)
    /\ [][Dropped("a") => Dropped("a")']_vars
    /\ [][subs["a"].pc = "done" => subs["a"].pc' = "done"]_vars
    /\ \A place \in LoopPlaces :
          (Dropped("a") /\ subs["a"].pc = place) ~> (subs["a"].pc = "done")

C12_Witness ==
    /\ Dropped("a")
    /\ subs["a"].pc = "done"
    /\ Len(Received("a")) >= 1
    /\ subs["a"].evaluated > Len(Received("a"))

Failed(item) == ~item.result.ok

\* the metadata the subscription was opened with
Subscribed == scaled_object.value

\* C13: an evaluation that fails does not end the task or the subscription: the
\* failed result is handed to send, enters the channel like any other item and
\* is followed by the sleep; while the subscriber stays connected the task is
\* never terminated, and a subscriber that stays connected and has taken a
\* failed item receives the next item too; a subscription opened with metadata
\* that does not validate holds nothing but that validation error.
C13_FailedTickIsAnItem ==
    /\ [](subs["a"].alive => subs["a"].pc # "done")
    /\ [][(/\ subs["a"].pc = "send" /\ subs["a"].alive /\ Failed(subs["a"].pending)
           /\ subs["a"].pc' # "send")
          => (/\ subs["a"].pc' = "sleep"
              /\ subs["a"].chan' = Append(subs["a"].chan, subs["a"].pending))]_vars
    /\ [](Opened("a") /\ ~FieldsValid(Subscribed) =>
            \A k \in 1..Len(Evaluations("a")) :
                /\ Failed(Evaluations("a")[k])
                /\ Evaluations("a")[k].result = is_active(working_days, Subscribed, clock, clock).result)
    /\ ([]~Dropped("a")) =>
          \A n \in 1..(MaxItems - 1) :
              (Len(Received("a")) = n /\ Failed(Received("a")[n]))
                  ~> (Len(Received("a")) = n + 1)

\* a date outside the index failed the first tick, and the second was received
C13_Witness ==
    /\ subs["a"].alive
    /\ FieldsValid(Subscribed)
    /\ Len(Received("a")) >= 2
    /\ Failed(Received("a")[1])
    /\ Received("a")[1].result.err.code = "InvalidArgument"

\* the publisher of s waits in send for room in its channel
Blocked(s) ==
    /\ subs[s].pc = "send"
    /\ subs[s].alive
    /\ Len(subs[s].chan) = 1

\* the steps of subscription t that its own state allows can be taken (the
\* evaluation has no condition but the task's place)
Unhindered(t) ==
    /\ subs[t].pc = "check" /\ (~subs[t].alive \/ subs[t].evaluated < MaxItems)
          => ENABLED PublisherCheck(t)
    /\ subs[t].pc = "send" /\ (~subs[t].alive \/ subs[t].chan = <<>>)
          => ENABLED PublisherSend(t)
    /\ subs[t].pc = "sleep" /\ subs[t].slept >= PushInterval
          => ENABLED PublisherWake(t)
    /\ subs[t].alive /\ subs[t].chan # <<>> => ENABLED Recv(t)

\* C14: every subscription has a channel of its own that never holds more than
\* one item; a publisher that finds the slot full stays in send with the item
\* it evaluated, evaluating nothing further, for as long as its subscriber
\* neither receives nor disconnects; and while it is blocked the steps of the
\* other subscription and the unary Metrics request can still be taken.
C14_OneSlotPerSubscription ==
    /\ [](\A s \in Subscribers : Len(subs[s].chan) <= 1)
    /\ [][\A s \in Subscribers :
            (/\ Blocked(s)
             /\ subs[s].received' = subs[s].received
             /\ subs[s].alive' = subs[s].alive)
            => subs[s]' = subs[s]]_vars
    /\ [](\A s \in Subscribers : Blocked(s) =>
            /\ \A t \in Subscribers \ {s} : Unhindered(t)
            /\ ENABLED GetMetrics)

\* "b" is blocked with an item nobody took, while "a" received all its items
\* and a unary request was answered
C14_Witness ==
    /\ Blocked("b")
    /\ Received("b") = <<>>
    /\ subs["b"].pending.seq = 2
    /\ subs["a"].alive
    /\ Len(Received("a")) = MaxItems
    /\ resp.op \in {"is_active", "get_metrics"}

-----------------------------------------------------------------------------
(* One clock instant for one ActivationCheck *)

\* the instants from the first clock reading of a request to its last: on each
\* date between them, the ends of the stretch of that date the request spanned
\* and the bounds of the window that fall inside that stretch (the decision
\* does not change between two neighbours of these)
InstantsSpanned(reads, message) ==
    LET first == reads[1]
        last == reads[Len(reads)]
        from == read_time(message, "fromTime")
        to == read_time(message, "toTime")
        Lo(d) == IF d = first.date THEN first.time ELSE 0
        Hi(d) == IF d = last.date THEN last.time ELSE hms(23, 59, 59)
        Bounds == (IF from.ok THEN {from.value} ELSE {}) \cup (IF to.ok THEN {to.value} ELSE {})
    IN  {[date |-> d, time |-> t] : d \in first.date..last.date, t \in 0..hms(23, 59, 59)} \cap
        UNION {[date : {d}, time : {Lo(d), Hi(d)} \cup {t \in Bounds : Lo(d) <= t /\ t <= Hi(d)}]
                 : d \in first.date..last.date}

\* C15: the decision an ActivationCheck returns is the decision for one single
\* instant of the clock between the start and the end of the request: the date
\* of the ordinal lookup and the time compared with the window are those of the
\* same instant.
C15_OneInstant ==
    IsActiveResp /\ resp.reads # <<>> =>
        \E now \in InstantsSpanned(resp.reads, resp.request) :
            resp.result = is_active(working_days, resp.request, now, now).result

-----------------------------------------------------------------------------
(* The holidays as a set *)

RECURSIVE Ascending(_)
Ascending(S) == IF S = {} THEN <<>> ELSE <<Min(S)>> \o Ascending(S \ {Min(S)})

\* the holiday list with its repeated dates and the dates outside of the
\* window removed
WithinOnce(l, start_date, end_date) ==
    Ascending({d \in Range(l) : start_date <= d /\ d <= end_date})

\* C16: the table of an index built over a window is the table built from the
\* holidays inside the window, each taken once: repeated dates and dates outside
\* of the window make no difference.
C16_TableOfHolidaySet ==
    Built =>
        working_days.data =
            build_with_range(working_days.start_date, working_days.end_date,
                             WithinOnce(holidays, working_days.start_date,
                                        working_days.end_date)).data

====
